---- MODULE Spec2Model ----
(***************************************************************************)
(* Model of the intercepting proxy relay.                                  *)
(*                                                                         *)
(* Two builds of server.js exist in the repository:                        *)
(*   - src/server.js: review RPCs over the manager WebSocket, HTTP         *)
(*     forwarding with fetch, CONNECT in direct-splice mode.   (Spec)      *)
(*   - src/unnamed/part_000: CONNECT in relayed mode, bytes are carried    *)
(*     as data frames over the manager WebSocket.          (SpecRelay)     *)
(*     Its direction from the clients to the manager.     (SpecTunnel)     *)
(* The merge of a decision over a request / response is a pure function    *)
(* and is additionally exercised on its own inputs.        (SpecMerge)     *)
(***************************************************************************)
EXTENDS Integers, Sequences, FiniteSets, TLC

\* ------------------------------------------------------------------------
\* Bounds of the model
\* ------------------------------------------------------------------------
\* number of client transactions (HTTP requests / CONNECTs) served
NumTxn == 1
\* number of manager WebSocket connections ever accepted
MaxChannels == 2

Txn == 1..NumTxn
Channel == 1..MaxChannels

\* `manager = null`
NoChannel == 0

\* ------------------------------------------------------------------------
\* Values
\* ------------------------------------------------------------------------
\* base64 text is a sequence of alphabet indices 0..63, PadChar is '='
PadChar == 64

RECURSIVE toBase64(_)
\* Buffer.prototype.toString('base64')
toBase64(bytes) ==
  IF Len(bytes) = 0 THEN <<>>
  ELSE IF Len(bytes) = 1 THEN
    << bytes[1] \div 4, (bytes[1] % 4) * 16, PadChar, PadChar >>
  ELSE IF Len(bytes) = 2 THEN
    << bytes[1] \div 4, (bytes[1] % 4) * 16 + (bytes[2] \div 16),
       (bytes[2] % 16) * 4, PadChar >>
  ELSE
    << bytes[1] \div 4, (bytes[1] % 4) * 16 + (bytes[2] \div 16),
       (bytes[2] % 16) * 4 + (bytes[3] \div 64), bytes[3] % 64 >>
      \o toBase64(SubSeq(bytes, 4, Len(bytes)))

RECURSIVE untilPad(_)
\* the base64 decoder stops at the first padding character
untilPad(text) ==
  IF Len(text) = 0 \/ text[1] = PadChar THEN <<>>
  ELSE <<text[1]>> \o untilPad(Tail(text))

RECURSIVE decodeSextets(_)
decodeSextets(s) ==
  IF Len(s) < 2 THEN <<>>
  ELSE IF Len(s) = 2 THEN << s[1] * 4 + (s[2] \div 16) >>
  ELSE IF Len(s) = 3 THEN
    << s[1] * 4 + (s[2] \div 16), (s[2] % 16) * 16 + (s[3] \div 4) >>
  ELSE
    << s[1] * 4 + (s[2] \div 16), (s[2] % 16) * 16 + (s[3] \div 4),
       (s[3] % 4) * 64 + s[4] >> \o decodeSextets(SubSeq(s, 5, Len(s)))

\* Buffer.from(text, 'base64')
fromBase64(text) == decodeSextets(untilPad(text))

\* an object without keys: {}
EmptyObject == [k \in {} |-> ""]

\* obj.f is present
Has(obj, f) == f \in DOMAIN obj

\* decision.modified?.f reads undefined both when `modified` is absent and
\* when it lacks f: an absent `modified` reads like {}
modifiedOf(decision) ==
  IF Has(decision, "modified") THEN decision.modified ELSE EmptyObject

\* obj.f used as a condition: undefined, '' (as text or base64 text) and 0
\* are falsy
Truthy(obj, f) ==
  Has(obj, f) /\ obj[f] # (CASE f = "status" -> 0
                             [] f = "body" -> <<>>
                             [] OTHER -> "")

\* obj.f || dflt
OrElse(obj, f, dflt) == IF Truthy(obj, f) THEN obj[f] ELSE dflt

\* Object.assign({}, a, b): shallow merge, the keys of b override
ObjectAssign(a, b) ==
  [k \in (DOMAIN a) \cup (DOMAIN b) |-> IF k \in DOMAIN b THEN b[k] ELSE a[k]]

\* a response body is text written by the proxy or a Buffer of bytes
Text(s) == [text |-> s]
Bytes(b) == [bytes |-> b]

\* ------------------------------------------------------------------------
\* src/server.js: merge of a decision over the request and the response
\* ------------------------------------------------------------------------
\* finalUrl, finalMethod, finalHeaders, finalBody of the request handler
finalRequest(req, decision) ==
  LET m == modifiedOf(decision) IN
  [ url     |-> OrElse(m, "url", req.url),
    method  |-> OrElse(m, "method", req.method),
    headers |-> ObjectAssign(req.headers,
                             IF Has(m, "headers") THEN m.headers ELSE EmptyObject),
    body    |-> IF Truthy(m, "body") THEN fromBase64(m.body) ELSE req.body ]

\* outStatus, outHeaders, outBody of the request handler
outResponse(resp, respDecision) ==
  LET m == modifiedOf(respDecision) IN
  [ status  |-> OrElse(m, "status", resp.status),
    headers |-> ObjectAssign(resp.headers,
                             IF Has(m, "headers") THEN m.headers ELSE EmptyObject),
    body    |-> Bytes(IF Truthy(m, "body") THEN fromBase64(m.body) ELSE resp.body) ]

\* ------------------------------------------------------------------------
\* Inputs of the model
\* ------------------------------------------------------------------------
MANAGER_TOKEN == "secret"

\* x-manager-token header values presented by upgrade requests ('' = no header)
Tokens == {"secret", "wrong", ""}

\* client requests (req.method, req.url, req.headers, buffered body)
Requests ==
  { [method |-> "POST", url |-> "http://example.test/a",
     headers |-> [host |-> "example.test"], body |-> <<104, 105>>] }

\* what fetch returns from the target
TargetResponses ==
  { [status |-> 200, headers |-> [server |-> "t"], body |-> <<104, 105>>] }

\* decision frames a manager may send (without their id)
Decisions ==
  { [action |-> "accept"],
    [action |-> "reject", reason |-> "blocked"],
    [action |-> "reject"] }

\* ------------------------------------------------------------------------
\* src/server.js: state
\* ------------------------------------------------------------------------
VARIABLES
  manager,          \* the current manager channel, NoChannel when null
  readyState,       \* readyState of every WebSocket ("NONE": not yet accepted)
  isAlive,          \* ws.isAlive (read only of the current manager: the flag
                    \* of a WebSocket that stopped being current is dropped)
  inboundClosed,    \* WebSockets that receive no more frames (peer closed, terminate())
  pendingDecisions, \* Map id -> waiter { resolve, reject, timer }
  timers,           \* the armed decision timers, one per waiter
  promise,          \* the promise returned by askManager, per waiter
  settleCalls,      \* number of resolve / reject calls made on a waiter
  sent,             \* frames written to manager channels
  pc,               \* position of each request / connect handler
  kind,             \* "http" or "connect"
  request,          \* the client's request
  forwarded,        \* the request passed to forwardHttpRequest
  targetResp,       \* the response forwardHttpRequest returned
  targetContacted,  \* handlers that called forwardHttpRequest / net.connect
  clientOut         \* what was written to the client, in order

serverVars ==
  << manager, readyState, isAlive, inboundClosed, pendingDecisions, timers,
     promise, settleCalls, sent, pc, kind, request,
     forwarded, targetResp, targetContacted, clientOut >>

\* src/unnamed/part_000: state of the relayed build
VARIABLES
  managerSocket,    \* the current manager WebSocket, NoChannel when null
  wsState,          \* readyState of every WebSocket of the relayed build
  connections,      \* Map id -> client socket (the transaction it belongs to)
  nextId,           \* the connection id counter
  connId,           \* the id each CONNECT handler drew
  clientSocket,     \* "none", "open", "ended" (half-closed by the relay), "closed"
  clientWrites,     \* what the relay wrote to each client socket, in order
  chunksRead,       \* number of 'data' events of each client socket
  relayed,          \* frames passed to managerSocket.send while it was
                    \* open, in order, per connection
  crashed,          \* an exception escaped an event handler
  upgradeOut        \* the last upgrade request and what its socket got

relayVars ==
  << managerSocket, wsState, connections, nextId, connId, clientSocket,
     clientWrites, chunksRead, relayed, crashed, upgradeOut >>

\* the merge functions on their own inputs
VARIABLES
  mergeIn,          \* a request or response and the decision to merge over it
  mergeOut          \* the merged record

mergeVars == << mergeIn, mergeOut >>

\* one waiter per askManager call: the request review and the response review
Phases == {"req", "resp"}
Waiters == Txn \X Phases

\* uuidv4() of a handler: distinct handlers draw distinct ids
uuid(t) == t

NotSettled == [state |-> "none", error |-> "", decision |-> EmptyObject]
Pending == [state |-> "pending", error |-> "", decision |-> EmptyObject]
Fulfilled(d) == [state |-> "fulfilled", error |-> "", decision |-> d]
Rejected(e) == [state |-> "rejected", error |-> e, decision |-> EmptyObject]

ServerInit ==
  /\ manager = NoChannel
  /\ readyState = [c \in Channel |-> "NONE"]
  /\ isAlive = [c \in Channel |-> FALSE]
  /\ inboundClosed = {}
  /\ pendingDecisions = EmptyObject
  /\ timers = {}
  /\ promise = [w \in Waiters |-> NotSettled]
  /\ settleCalls = [w \in Waiters |-> 0]
  /\ sent = {}
  /\ pc = [t \in Txn |-> "new"]
  /\ kind = [t \in Txn |-> "none"]
  /\ request = [t \in Txn |-> EmptyObject]
  /\ forwarded = [t \in Txn |-> EmptyObject]
  /\ targetResp = [t \in Txn |-> EmptyObject]
  /\ targetContacted = {}
  /\ clientOut = [t \in Txn |-> <<>>]

\* ------------------------------------------------------------------------
\* src/server.js: the manager channel
\* ------------------------------------------------------------------------
\* Map.prototype.delete / set
MapDelete(m, k) == [x \in (DOMAIN m) \ {k} |-> m[x]]
MapSet(m, k, v) == [x \in (DOMAIN m) \cup {k} |-> IF x = k THEN v ELSE m[x]]

\* resolve(v) / reject(e) of a promise: only the first call settles it
settle(pr, w, outcome) ==
  IF pr[w].state = "pending" THEN [pr EXCEPT ![w] = outcome] ELSE pr

\* the continuation of an awaited askManager is a microtask: it runs before
\* the event loop dispatches the next event
Quiescent ==
  \A t \in Txn :
    /\ pc[t] = "awaitReq" => promise[<<t, "req">>].state = "pending"
    /\ pc[t] = "awaitResp" => promise[<<t, "resp">>].state = "pending"

\* mutant of clearTimeout: the timer of a settled waiter stays armed
clearTimeoutForgotten(ws) == timers

\* clearTimeout(p.timer) for every waiter p of ws: the timers left armed
clearTimeout(ws) == timers \ ws

\* sendJson(ws, obj): the frames written once obj was (or was not) sent
sendJson(ws, obj) ==
  IF ws # NoChannel /\ readyState[ws] = "OPEN"
  THEN sent \cup {[ch |-> ws, frame |-> obj]}
  ELSE sent

\* mutant of managerOpen: the readyState of the manager is not looked at
managerOpenUnchecked == manager # NoChannel

\* manager && manager.readyState === manager.OPEN
managerOpen == manager # NoChannel /\ readyState[manager] = "OPEN"

\* askManager(message), called for waiter w
askManager(w, message) ==
  IF ~managerOpen
  THEN /\ promise' = [promise EXCEPT ![w] = Rejected("manager-not-connected")]
       /\ settleCalls' = [settleCalls EXCEPT ![w] = @ + 1]
       /\ UNCHANGED << pendingDecisions, timers, sent >>
  ELSE /\ promise' = [promise EXCEPT ![w] = Pending]
       /\ timers' = timers \cup {w}
       /\ pendingDecisions' = MapSet(pendingDecisions, message.id, w)
       /\ sent' = sendJson(manager, message)
       /\ UNCHANGED settleCalls

\* the channel a new connection gets
NewChannel == CHOOSE c \in Channel :
                /\ readyState[c] = "NONE"
                /\ \A d \in Channel : readyState[d] = "NONE" => c <= d

\* wss.on('connection'): the new channel supersedes the current one
connection(ws) ==
  /\ readyState' =
       IF managerOpen
       THEN [readyState EXCEPT ![manager] = "CLOSING", ![ws] = "OPEN"]
       ELSE [readyState EXCEPT ![ws] = "OPEN"]
  /\ manager' = ws
  /\ isAlive' = [c \in Channel |-> c = ws]

\* what server.on('upgrade') does with the socket of an upgrade request: a
\* refused socket is written 401 and destroyed, handleUpgrade answers 101.
\* The socket of a refused request is no state of the server.
upgradeReply(token) ==
  IF token = "" \/ token # MANAGER_TOKEN
  THEN [token |-> token, written |-> "401", destroyed |-> TRUE]
  ELSE [token |-> token, written |-> "101", destroyed |-> FALSE]

\* server.on('upgrade')
upgrade(token) ==
  /\ Quiescent
  /\ IF upgradeReply(token).destroyed
     THEN UNCHANGED << manager, readyState, isAlive >>
     ELSE /\ \E c \in Channel : readyState[c] = "NONE"
          /\ connection(NewChannel)
  /\ UNCHANGED << inboundClosed, pendingDecisions, timers, promise,
                  settleCalls, sent, pc, kind, request, forwarded,
                  targetResp, targetContacted, clientOut >>
  /\ UNCHANGED << relayVars, mergeVars >>

\* ws.on('message'): a frame of the manager arrives on ws
message(ws, msg) ==
  /\ Quiescent
  /\ readyState[ws] \in {"OPEN", "CLOSING"}
  /\ ws \notin inboundClosed
  /\ IF msg.type = "decision" /\ msg.id # 0 /\ msg.id \in DOMAIN pendingDecisions
     THEN LET w == pendingDecisions[msg.id] IN
          /\ timers' = clearTimeout({w})
          /\ pendingDecisions' = MapDelete(pendingDecisions, msg.id)
          /\ promise' = settle(promise, w, Fulfilled(msg))
          /\ settleCalls' = [settleCalls EXCEPT ![w] = @ + 1]
     ELSE UNCHANGED << timers, pendingDecisions, promise, settleCalls >>
  /\ UNCHANGED << manager, readyState, isAlive, inboundClosed, sent, pc,
                  kind, request, forwarded, targetResp, targetContacted,
                  clientOut >>
  /\ UNCHANGED << relayVars, mergeVars >>

\* the waiters held by the table
Waiting == {pendingDecisions[i] : i \in DOMAIN pendingDecisions}

\* ws.on('close'): fail every waiter of the table
close(ws) ==
  /\ Quiescent
  /\ readyState[ws] = "CLOSING"
  /\ readyState' = [readyState EXCEPT ![ws] = "CLOSED"]
  /\ timers' = clearTimeout(Waiting)
  /\ promise' = [w \in Waiters |->
                   IF w \in Waiting
                   THEN settle(promise, w, Rejected("manager-disconnected"))[w]
                   ELSE promise[w]]
  /\ settleCalls' = [w \in Waiters |->
                       IF w \in Waiting THEN settleCalls[w] + 1
                       ELSE settleCalls[w]]
  /\ pendingDecisions' = EmptyObject
  /\ manager' = IF manager = ws THEN NoChannel ELSE manager
  /\ isAlive' = [isAlive EXCEPT ![ws] = FALSE]
  /\ inboundClosed' = inboundClosed \ {ws}
  /\ UNCHANGED << sent, pc, kind, request, forwarded, targetResp,
                  targetContacted, clientOut >>
  /\ UNCHANGED << relayVars, mergeVars >>

\* the peer starts the closing handshake or its connection drops: the
\* WebSocket leaves OPEN, its 'close' event follows
peerClose(ws) ==
  /\ Quiescent
  /\ readyState[ws] = "OPEN"
  /\ readyState' = [readyState EXCEPT ![ws] = "CLOSING"]
  /\ inboundClosed' = inboundClosed \cup {ws}
  /\ UNCHANGED << manager, isAlive, pendingDecisions, timers, promise,
                  settleCalls, sent, pc, kind, request, forwarded,
                  targetResp, targetContacted, clientOut >>
  /\ UNCHANGED << relayVars, mergeVars >>

\* ws.on('pong')
pong(ws) ==
  /\ Quiescent
  /\ readyState[ws] = "OPEN"
  /\ isAlive' = [isAlive EXCEPT ![ws] = TRUE]
  /\ UNCHANGED << manager, readyState, inboundClosed, pendingDecisions,
                  timers, promise, settleCalls, sent, pc, kind, request,
                  forwarded, targetResp, targetContacted, clientOut >>
  /\ UNCHANGED << relayVars, mergeVars >>

\* mutant of probeUnanswered: every tick takes the manager for dead
probeUnansweredAlways == TRUE

\* !manager.isAlive: no pong came since the ping of the last tick
probeUnanswered == ~isAlive[manager]

\* the setInterval callback: ping the manager, terminate it when the last
\* ping got no pong
heartbeat ==
  /\ Quiescent
  /\ manager # NoChannel
  /\ IF probeUnanswered
     THEN /\ readyState' = [readyState EXCEPT ![manager] = "CLOSING"]
          /\ inboundClosed' = inboundClosed \cup {manager}
          /\ manager' = NoChannel
          /\ UNCHANGED isAlive
     ELSE /\ isAlive' = [isAlive EXCEPT ![manager] = FALSE]
          /\ UNCHANGED << manager, readyState, inboundClosed >>
  /\ UNCHANGED << pendingDecisions, timers, promise, settleCalls, sent, pc,
                  kind, request, forwarded, targetResp, targetContacted,
                  clientOut >>
  /\ UNCHANGED << relayVars, mergeVars >>

\* the setTimeout callback of askManager, armed for waiter w
timeout(w) ==
  /\ Quiescent
  /\ w \in timers
  /\ timers' = timers \ {w}
  /\ pendingDecisions' = MapDelete(pendingDecisions, uuid(w[1]))
  /\ promise' = settle(promise, w, Rejected("manager-timeout"))
  /\ settleCalls' = [settleCalls EXCEPT ![w] = @ + 1]
  /\ UNCHANGED << manager, readyState, isAlive, inboundClosed, sent, pc,
                  kind, request, forwarded, targetResp, targetContacted,
                  clientOut >>
  /\ UNCHANGED << relayVars, mergeVars >>

\* ------------------------------------------------------------------------
\* src/server.js: the HTTP handler
\* ------------------------------------------------------------------------
\* res.writeHead(status, headers); res.end(body)
respond(t, status, headers, body) ==
  clientOut' = [clientOut EXCEPT
                  ![t] = Append(@, [status |-> status, headers |-> headers,
                                    body |-> body])]

\* clientSocket.write('HTTP/1.1 <status> ...\r\n\r\n')
writeStatus(t, status) == respond(t, status, EmptyObject, Text(""))

\* mutant of isReject: a reject decision is taken for an accept
isRejectIgnored(decision) == FALSE

\* decision.action === 'reject'
isReject(decision) == decision.action = "reject"

\* mutant of rejectBody: the reason of the decision is not used
rejectBodyFixed(decision, dflt) == Text(dflt)

\* decision.reason || dflt
rejectBody(decision, dflt) == Text(OrElse(decision, "reason", dflt))

\* mutant of reviewFailed: a failed review is answered as a bad gateway
reviewFailedAs502 ==
  [status |-> 502, body |-> Text("Manager timeout / disconnected")]

\* what the request handler answers when the request review failed
reviewFailed ==
  [status |-> 504, body |-> Text("Manager timeout / disconnected")]

\* the status the connect handler answers when its review failed
ConnectReviewFailed == 504

\* mutant of originalResponse: the fallback drops the target's headers
originalResponseBare(resp) ==
  [status |-> resp.status, headers |-> EmptyObject, body |-> Bytes(resp.body)]

\* the response written when the response review failed: targetResp as it is
originalResponse(resp) ==
  [status |-> resp.status, headers |-> resp.headers, body |-> Bytes(resp.body)]

\* server.on('request') up to its first askManager
requestReview(t, req) ==
  /\ Quiescent
  /\ pc[t] = "new"
  /\ kind' = [kind EXCEPT ![t] = "http"]
  /\ request' = [request EXCEPT ![t] = req]
  /\ askManager(<<t, "req">>,
                [type |-> "review-request", id |-> uuid(t), kind |-> "http",
                 method |-> req.method, url |-> req.url,
                 headers |-> req.headers, body |-> toBase64(req.body)])
  /\ pc' = [pc EXCEPT ![t] = "awaitReq"]
  /\ UNCHANGED << manager, readyState, isAlive, inboundClosed, forwarded,
                  targetResp, targetContacted, clientOut >>
  /\ UNCHANGED << relayVars, mergeVars >>

\* server.on('request') after `decision = await askManager(reviewMsg)`
requestReviewed(t) ==
  LET p == promise[<<t, "req">>] IN
  /\ pc[t] = "awaitReq"
  /\ kind[t] = "http"
  /\ p.state \in {"fulfilled", "rejected"}
  /\ IF p.state = "rejected"
     THEN /\ respond(t, reviewFailed.status, EmptyObject, reviewFailed.body)
          /\ pc' = [pc EXCEPT ![t] = "done"]
          /\ UNCHANGED << forwarded, targetContacted >>
     ELSE IF isReject(p.decision)
     THEN /\ respond(t, 403, EmptyObject,
                     rejectBody(p.decision, "Rejected by manager"))
          /\ pc' = [pc EXCEPT ![t] = "done"]
          /\ UNCHANGED << forwarded, targetContacted >>
     ELSE /\ forwarded' = [forwarded EXCEPT
                             ![t] = finalRequest(request[t], p.decision)]
          /\ targetContacted' = targetContacted \cup {t}
          /\ pc' = [pc EXCEPT ![t] = "fetching"]
          /\ UNCHANGED clientOut
  /\ UNCHANGED << manager, readyState, isAlive, inboundClosed,
                  pendingDecisions, timers, promise, settleCalls, sent, kind,
                  request, targetResp >>
  /\ UNCHANGED << relayVars, mergeVars >>

\* forwardHttpRequest returned resp: the handler asks for the response review
responseReview(t, resp) ==
  /\ Quiescent
  /\ pc[t] = "fetching"
  /\ targetResp' = [targetResp EXCEPT ![t] = resp]
  /\ askManager(<<t, "resp">>,
                [type |-> "response-review", id |-> uuid(t),
                 status |-> resp.status, headers |-> resp.headers,
                 body |-> toBase64(resp.body)])
  /\ pc' = [pc EXCEPT ![t] = "awaitResp"]
  /\ UNCHANGED << manager, readyState, isAlive, inboundClosed, kind, request,
                  forwarded, targetContacted, clientOut >>
  /\ UNCHANGED << relayVars, mergeVars >>

\* forwardHttpRequest threw: the outer catch answers 500
requestFailed(t) ==
  /\ Quiescent
  /\ pc[t] = "fetching"
  /\ respond(t, 500, EmptyObject, Text("Internal proxy server error"))
  /\ pc' = [pc EXCEPT ![t] = "done"]
  /\ UNCHANGED << manager, readyState, isAlive, inboundClosed,
                  pendingDecisions, timers, promise, settleCalls, sent, kind,
                  request, forwarded, targetResp, targetContacted >>
  /\ UNCHANGED << relayVars, mergeVars >>

\* server.on('request') after `respDecision = await askManager(respReview)`
responseReviewed(t) ==
  LET p == promise[<<t, "resp">>]
      out == outResponse(targetResp[t], p.decision) IN
  /\ pc[t] = "awaitResp"
  /\ p.state \in {"fulfilled", "rejected"}
  /\ IF p.state = "rejected"
     THEN LET orig == originalResponse(targetResp[t]) IN
          respond(t, orig.status, orig.headers, orig.body)
     ELSE IF isReject(p.decision)
     THEN respond(t, 403, EmptyObject,
                  rejectBody(p.decision, "Response rejected by manager"))
     ELSE respond(t, out.status, out.headers, out.body)
  /\ pc' = [pc EXCEPT ![t] = "done"]
  /\ UNCHANGED << manager, readyState, isAlive, inboundClosed,
                  pendingDecisions, timers, promise, settleCalls, sent, kind,
                  request, forwarded, targetResp, targetContacted >>
  /\ UNCHANGED << relayVars, mergeVars >>

\* ------------------------------------------------------------------------
\* src/server.js: the CONNECT handler (direct splice)
\* ------------------------------------------------------------------------
ConnectRequests ==
  { [host |-> "example.test", port |-> 443, headers |-> [host |-> "example.test:443"]] }

\* server.on('connect') up to its askManager
connectReview(t, req) ==
  /\ Quiescent
  /\ pc[t] = "new"
  /\ kind' = [kind EXCEPT ![t] = "connect"]
  /\ request' = [request EXCEPT ![t] = req]
  /\ askManager(<<t, "req">>,
                [type |-> "review-request", id |-> uuid(t), kind |-> "connect",
                 host |-> req.host, port |-> req.port, headers |-> req.headers])
  /\ pc' = [pc EXCEPT ![t] = "awaitReq"]
  /\ UNCHANGED << manager, readyState, isAlive, inboundClosed, forwarded,
                  targetResp, targetContacted, clientOut >>
  /\ UNCHANGED << relayVars, mergeVars >>

\* server.on('connect') after `decision = await askManager(review)`
connectReviewed(t) ==
  LET p == promise[<<t, "req">>] IN
  /\ pc[t] = "awaitReq"
  /\ kind[t] = "connect"
  /\ p.state \in {"fulfilled", "rejected"}
  /\ IF p.state = "rejected"
     THEN /\ writeStatus(t, ConnectReviewFailed)
          /\ pc' = [pc EXCEPT ![t] = "done"]
          /\ UNCHANGED targetContacted
     ELSE IF isReject(p.decision)
     THEN /\ writeStatus(t, 403)
          /\ pc' = [pc EXCEPT ![t] = "done"]
          /\ UNCHANGED targetContacted
     ELSE /\ targetContacted' = targetContacted \cup {t}
          /\ pc' = [pc EXCEPT ![t] = "dialing"]
          /\ UNCHANGED clientOut
  /\ UNCHANGED << manager, readyState, isAlive, inboundClosed,
                  pendingDecisions, timers, promise, settleCalls, sent, kind,
                  request, forwarded, targetResp >>
  /\ UNCHANGED << relayVars, mergeVars >>

\* the connect listener of net.connect: 200 and splice
targetConnected(t) ==
  /\ Quiescent
  /\ pc[t] = "dialing"
  /\ writeStatus(t, 200)
  /\ pc' = [pc EXCEPT ![t] = "tunnel"]
  /\ UNCHANGED << manager, readyState, isAlive, inboundClosed,
                  pendingDecisions, timers, promise, settleCalls, sent, kind,
                  request, forwarded, targetResp, targetContacted >>
  /\ UNCHANGED << relayVars, mergeVars >>

\* targetSocket.on('error')
targetSocketError(t) ==
  /\ Quiescent
  /\ pc[t] \in {"dialing", "tunnel"}
  /\ writeStatus(t, 502)
  /\ pc' = [pc EXCEPT ![t] = "done"]
  /\ UNCHANGED << manager, readyState, isAlive, inboundClosed,
                  pendingDecisions, timers, promise, settleCalls, sent, kind,
                  request, forwarded, targetResp, targetContacted >>
  /\ UNCHANGED << relayVars, mergeVars >>

\* an id no handler has drawn
StaleId == NumTxn + 1

\* frames a manager may send: a decision for an id of the table, a decision
\* for an id that is not in it (all of those are dropped alike), a decision
\* without id, and a frame that is no decision
ManagerMessages ==
  { d @@ [type |-> "decision", id |-> i] :
      d \in Decisions, i \in DOMAIN pendingDecisions }
    \cup { [type |-> "decision", id |-> StaleId, action |-> "accept"],
           [type |-> "decision", id |-> 0, action |-> "accept"],
           [type |-> "hello", id |-> 0] }

ServerNext ==
  \/ \E token \in Tokens : upgrade(token)
  \/ \E ws \in Channel, msg \in ManagerMessages : message(ws, msg)
  \/ \E ws \in Channel : close(ws)
  \/ \E ws \in Channel : peerClose(ws)
  \/ \E ws \in Channel : pong(ws)
  \/ heartbeat
  \/ \E w \in Waiters : timeout(w)
  \/ \E t \in Txn, req \in Requests : requestReview(t, req)
  \/ \E t \in Txn : requestReviewed(t)
  \/ \E t \in Txn, resp \in TargetResponses : responseReview(t, resp)
  \/ \E t \in Txn : requestFailed(t)
  \/ \E t \in Txn : responseReviewed(t)
  \/ \E t \in Txn, req \in ConnectRequests : connectReview(t, req)
  \/ \E t \in Txn : connectReviewed(t)
  \/ \E t \in Txn : targetConnected(t)
  \/ \E t \in Txn : targetSocketError(t)

\* ------------------------------------------------------------------------
\* src/unnamed/part_000: the relayed build
\* ------------------------------------------------------------------------
\* number of chunks a client writes into one tunnel
MaxChunks == 2

\* the k-th chunk a client writes into its tunnel: 'ABC', 'BBC', 'CBC', ...
chunkOf(k) == << 64 + k, 66, 67 >>

\* the bytes a client writes
Chunks == { chunkOf(k) : k \in 1..MaxChunks }

\* the bytes the manager relays from a target: 'XYZ'
ManagerChunks == { <<88, 89, 90>> }

RelayInit ==
  /\ managerSocket = NoChannel
  /\ wsState = [c \in Channel |-> "NONE"]
  /\ connections = EmptyObject
  /\ nextId = 1
  /\ connId = [t \in Txn |-> 0]
  /\ clientSocket = [t \in Txn |-> "none"]
  /\ clientWrites = [t \in Txn |-> <<>>]
  /\ chunksRead = [t \in Txn |-> 0]
  /\ relayed = [t \in Txn |-> <<>>]
  /\ crashed = FALSE
  /\ upgradeOut = EmptyObject

\* mutant of managerSocketOpen: the readyState is not looked at
managerSocketOpenUnchecked == managerSocket # NoChannel

\* managerSocket && managerSocket.readyState === WebSocket.OPEN
managerSocketOpen == managerSocket # NoChannel /\ wsState[managerSocket] = "OPEN"

\* the channel a new connection of the relayed build gets
NewRelayChannel == CHOOSE c \in Channel :
                     /\ wsState[c] = "NONE"
                     /\ \A d \in Channel : wsState[d] = "NONE" => c <= d

\* what server.on("upgrade") of the relayed build does with the socket of an
\* upgrade request: handleUpgrade answers 101, a refused socket is destroyed
\* without anything written to it
relayUpgradeReply(pathname, token) ==
  IF pathname = "/ws" /\ token = MANAGER_TOKEN
  THEN [pathname |-> pathname, token |-> token, written |-> "101",
        destroyed |-> FALSE]
  ELSE [pathname |-> pathname, token |-> token, written |-> "",
        destroyed |-> TRUE]

\* server.on("upgrade") and wss.on("connection") of the relayed build
relayUpgrade(pathname, token) ==
  /\ ~crashed
  /\ upgradeOut' = relayUpgradeReply(pathname, token)
  /\ IF ~upgradeOut'.destroyed
     THEN /\ \E c \in Channel : wsState[c] = "NONE"
          /\ wsState' = [wsState EXCEPT ![NewRelayChannel] = "OPEN"]
          /\ managerSocket' = NewRelayChannel
     ELSE UNCHANGED << managerSocket, wsState >>
  /\ UNCHANGED << connections, nextId, connId, clientSocket, clientWrites,
                  chunksRead, relayed, crashed >>
  /\ UNCHANGED << serverVars, mergeVars >>

\* the peer of a manager WebSocket closes it or its connection drops
relayPeerClose(ws) ==
  /\ ~crashed
  /\ wsState[ws] = "OPEN"
  /\ wsState' = [wsState EXCEPT ![ws] = "CLOSING"]
  /\ UNCHANGED << managerSocket, connections, nextId, connId, clientSocket,
                  clientWrites, chunksRead, relayed, crashed >>
  /\ UNCHANGED upgradeOut
  /\ UNCHANGED << serverVars, mergeVars >>

\* ws.on("close") of the relayed build
relayClose(ws) ==
  /\ ~crashed
  /\ wsState[ws] = "CLOSING"
  /\ wsState' = [wsState EXCEPT ![ws] = "CLOSED"]
  /\ managerSocket' = NoChannel
  /\ UNCHANGED << connections, nextId, connId, clientSocket, clientWrites,
                  chunksRead, relayed, crashed >>
  /\ UNCHANGED upgradeOut
  /\ UNCHANGED << serverVars, mergeVars >>

\* ws.on("message") of the relayed build. A registered socket is open or was
\* half-closed by an earlier 'end' frame (the registry forgets it only at its
\* 'close' event); conn.write on a half-closed socket emits an 'error' event
\* nobody listens to, which ends the process.
relayMessage(ws, packet) ==
  /\ ~crashed
  /\ wsState[ws] = "OPEN"
  /\ (packet.type = "data" /\ packet.id \in DOMAIN connections)
       => Len(clientWrites[connections[packet.id]]) <= MaxChunks
  /\ IF packet.id \notin DOMAIN connections
     THEN UNCHANGED << clientSocket, clientWrites, crashed >>
     ELSE LET conn == connections[packet.id] IN
          IF packet.type = "data"
          THEN IF clientSocket[conn] = "open"
               THEN /\ clientWrites' =
                         [clientWrites EXCEPT
                            ![conn] = Append(@, Bytes(fromBase64(packet.data)))]
                    /\ UNCHANGED << clientSocket, crashed >>
               ELSE /\ crashed' = TRUE
                    /\ UNCHANGED << clientSocket, clientWrites >>
          ELSE IF packet.type = "end"
          THEN /\ clientSocket' = [clientSocket EXCEPT ![conn] = "ended"]
               /\ UNCHANGED << clientWrites, crashed >>
          ELSE UNCHANGED << clientSocket, clientWrites, crashed >>
  /\ UNCHANGED << managerSocket, wsState, connections, nextId, connId,
                  chunksRead, relayed >>
  /\ UNCHANGED upgradeOut
  /\ UNCHANGED << serverVars, mergeVars >>

\* server.on("connect") of the relayed build
relayConnect(t) ==
  /\ ~crashed
  /\ clientSocket[t] = "none"
  /\ nextId' = nextId + 1
  /\ connId' = [connId EXCEPT ![t] = nextId]
  /\ IF ~managerSocketOpen
     THEN /\ clientWrites' = [clientWrites EXCEPT ![t] = Append(@, [status |-> 502])]
          /\ clientSocket' = [clientSocket EXCEPT ![t] = "closed"]
          /\ UNCHANGED connections
     ELSE /\ connections' = MapSet(connections, nextId, t)
          /\ clientWrites' = [clientWrites EXCEPT ![t] = Append(@, [status |-> 200])]
          /\ clientSocket' = [clientSocket EXCEPT ![t] = "open"]
  /\ UNCHANGED << managerSocket, wsState, chunksRead, relayed, crashed >>
  /\ UNCHANGED upgradeOut
  /\ UNCHANGED << serverVars, mergeVars >>

\* clientSocket.on("data") of the relayed build
relayClientData(t, chunk) ==
  /\ ~crashed
  /\ clientSocket[t] \in {"open", "ended"}
  /\ chunksRead[t] < MaxChunks
  /\ chunk = chunkOf(chunksRead[t] + 1)
  /\ chunksRead' = [chunksRead EXCEPT ![t] = @ + 1]
  /\ IF managerSocket = NoChannel
     THEN \* managerSocket.send on null throws
          /\ crashed' = TRUE
          /\ UNCHANGED relayed
     ELSE /\ relayed' =
               IF wsState[managerSocket] = "OPEN"
               THEN [relayed EXCEPT
                       ![t] = Append(@, [id |-> connId[t], type |-> "data",
                                         data |-> toBase64(chunk)])]
               ELSE relayed
          /\ UNCHANGED crashed
  /\ UNCHANGED << managerSocket, wsState, connections, nextId, connId,
                  clientSocket, clientWrites >>
  /\ UNCHANGED upgradeOut
  /\ UNCHANGED << serverVars, mergeVars >>

\* clientSocket.on("close") of the relayed build
relayClientClose(t) ==
  /\ ~crashed
  /\ clientSocket[t] \in {"open", "ended"}
  /\ clientSocket' = [clientSocket EXCEPT ![t] = "closed"]
  /\ connections' = MapDelete(connections, connId[t])
  /\ relayed' =
       IF managerSocketOpen
       THEN [relayed EXCEPT
               ![t] = Append(@, [id |-> connId[t], type |-> "end"])]
       ELSE relayed
  /\ UNCHANGED << managerSocket, wsState, nextId, connId, clientWrites,
                  chunksRead, crashed >>
  /\ UNCHANGED upgradeOut
  /\ UNCHANGED << serverVars, mergeVars >>

\* packets a manager may send to the relayed build
RelayPackets ==
  { [id |-> i, type |-> "data", data |-> toBase64(c)] :
      i \in 1..(NumTxn + 1), c \in ManagerChunks }
    \cup { [id |-> i, type |-> "end"] : i \in 1..(NumTxn + 1) }

RelayNext ==
  \/ \E pathname \in {"/ws", "/manager"}, token \in Tokens :
       relayUpgrade(pathname, token)
  \/ \E ws \in Channel : relayPeerClose(ws)
  \/ \E ws \in Channel : relayClose(ws)
  \/ \E ws \in Channel, packet \in RelayPackets : relayMessage(ws, packet)
  \/ \E t \in Txn : relayConnect(t)
  \/ \E t \in Txn, chunk \in Chunks : relayClientData(t, chunk)
  \/ \E t \in Txn : relayClientClose(t)

\* ------------------------------------------------------------------------
\* The merge functions on their own inputs
\* ------------------------------------------------------------------------
Restrict(f, D) == [k \in D |-> f[k]]

\* `modified` records: every subset of the fields, empty values included
ModifiedRecords ==
  { Restrict(full, D) :
      full \in [url : {"http://other.test/b"}, method : {"PUT"},
                headers : {[via |-> "m"], [host |-> "other.test"]},
                body : {<<>>, toBase64(<<90>>)}, status : {201}],
      D \in SUBSET {"url", "method", "headers", "body", "status"} }

MergeDecisions ==
  { [action |-> "accept"] }
    \cup { [action |-> "accept", modified |-> m] : m \in ModifiedRecords }

MergeRequests ==
  Requests \cup { [method |-> "GET", url |-> "http://example.test/a",
                   headers |-> [host |-> "example.test"], body |-> <<>>] }

MergeInputs ==
  { [of |-> "request", orig |-> r, decision |-> d] :
      r \in MergeRequests, d \in MergeDecisions }
    \cup { [of |-> "response", orig |-> r, decision |-> d] :
             r \in TargetResponses, d \in MergeDecisions }

MergeIdle == mergeIn = EmptyObject /\ mergeOut = EmptyObject

\* the request handler computes finalUrl, finalMethod, finalHeaders, finalBody
mergeRequest ==
  /\ mergeIn # EmptyObject
  /\ mergeIn.of = "request"
  /\ mergeOut = EmptyObject
  /\ mergeOut' = finalRequest(mergeIn.orig, mergeIn.decision)
  /\ UNCHANGED mergeIn
  /\ UNCHANGED << serverVars, relayVars >>

\* the request handler computes outStatus, outHeaders, outBody
mergeResponse ==
  /\ mergeIn # EmptyObject
  /\ mergeIn.of = "response"
  /\ mergeOut = EmptyObject
  /\ mergeOut' = outResponse(mergeIn.orig, mergeIn.decision)
  /\ UNCHANGED mergeIn
  /\ UNCHANGED << serverVars, relayVars >>

\* ------------------------------------------------------------------------
\* Specifications
\* ------------------------------------------------------------------------
vars == << serverVars, relayVars, mergeVars >>

\* src/server.js
Init == ServerInit /\ RelayInit /\ MergeIdle

Next == ServerNext

Spec == Init /\ [][Next]_vars

\* src/unnamed/part_000
NextRelay == RelayNext

SpecRelay == Init /\ [][NextRelay]_vars

\* src/unnamed/part_000, the direction from the clients to the manager: the
\* upgrade requests carry the secret and the manager sends no frames. The
\* steps left out change only upgradeOut, clientWrites, crashed and whether
\* a client socket is half-closed, none of which a step of NextTunnel reads
\* (a crash ends the behaviour).
NextTunnel ==
  \/ relayUpgrade("/ws", MANAGER_TOKEN)
  \/ \E ws \in Channel : relayPeerClose(ws)
  \/ \E ws \in Channel : relayClose(ws)
  \/ \E t \in Txn : relayConnect(t)
  \/ \E t \in Txn, chunk \in Chunks : relayClientData(t, chunk)
  \/ \E t \in Txn : relayClientClose(t)

SpecTunnel == Init /\ [][NextTunnel]_vars

\* the merge functions
InitMerge ==
  /\ ServerInit
  /\ RelayInit
  /\ mergeIn \in MergeInputs
  /\ mergeOut = EmptyObject

NextMerge == mergeRequest \/ mergeResponse

SpecMerge == InitMerge /\ [][NextMerge]_vars

\* ------------------------------------------------------------------------
\* Properties of src/server.js
\* ------------------------------------------------------------------------
\* the type of the frame askManager writes for a waiter
frameType(w) == IF w[2] = "req" THEN "review-request" ELSE "response-review"

\* the channels the review frame of waiter w was written to
sentOn(w) ==
  { f.ch : f \in { g \in sent : g.frame.id = uuid(w[1])
                                  /\ g.frame.type = frameType(w) } }

Settled(w) == promise[w].state \in {"fulfilled", "rejected"}

\* C1: a waiter of the pending-decision table is settled exactly once. While
\* it is in the table it is pending, nothing has settled it and its timer is
\* armed; once a reply, its timer or a close has settled it, exactly one
\* resolve / reject call was made on it, it has left the table and its timer
\* is disarmed, and no later step settles it again or changes its outcome.
C1_SettledExactlyOnce ==
  /\ [](\A w \in Waiters :
          /\ settleCalls[w] <= 1
          /\ w \in Waiting =>
               promise[w].state = "pending" /\ settleCalls[w] = 0 /\ w \in timers
          /\ promise[w].state = "pending" => w \in Waiting
          /\ Settled(w) =>
               settleCalls[w] = 1 /\ w \notin Waiting /\ w \notin timers)
  /\ [][\A w \in Waiters :
          Settled(w) => promise'[w] = promise[w] /\ settleCalls'[w] = settleCalls[w]
       ]_vars

\* a decision settled a waiter and the channel it was asked on has closed since
C1_Witness ==
  \E w \in Waiters :
    /\ promise[w].state = "fulfilled"
    /\ \E c \in sentOn(w) : readyState[c] = "CLOSED"

\* C2: a waiter registered after a new channel became current is never
\* failed with manager-disconnected by the close event of an older channel.
C2_HandoverClaim ==
  [][\A ws \in Channel, w \in Waiters :
       ( /\ readyState[ws] = "CLOSING" /\ readyState'[ws] = "CLOSED"
         /\ promise[w].state = "pending"
         /\ promise'[w] = Rejected("manager-disconnected") )
       => \A c \in sentOn(w) : c <= ws
    ]_vars

\* C3: after the manager channel disconnected no waiter is left: there is no
\* table entry while there is no current manager channel, and the close
\* handler leaves the table empty and every waiter that was pending failed
\* with manager-disconnected.
C3_DisconnectClaim ==
  /\ [](manager = NoChannel => DOMAIN pendingDecisions = {})
  /\ [][\A ws \in Channel :
          (readyState[ws] = "CLOSING" /\ readyState'[ws] = "CLOSED")
          => /\ DOMAIN pendingDecisions' = {}
             /\ \A w \in Waiting : promise'[w] = Rejected("manager-disconnected")
       ]_vars

\* C4: at most one manager channel is connected at a time; a channel that
\* became current stays current until it closes itself or a newly accepted
\* channel supersedes it. Stated of both builds.
C4_SingleManagerClaim ==
  /\ [](/\ Cardinality({c \in Channel : readyState[c] = "OPEN"}) <= 1
        /\ Cardinality({c \in Channel : wsState[c] = "OPEN"}) <= 1)
  /\ [][/\ (manager # NoChannel /\ manager' # manager)
             => \/ manager' # NoChannel /\ readyState[manager'] = "NONE"
                \/ readyState'[manager] # "OPEN"
        /\ (managerSocket # NoChannel /\ managerSocket' # managerSocket)
             => \/ managerSocket' # NoChannel /\ wsState[managerSocket'] = "NONE"
                \/ wsState'[managerSocket] # "OPEN"
       ]_vars

\* askManager is being called for waiter w in this step
Asking(w) ==
  LET t == w[1] IN
  \/ w[2] = "req" /\ pc[t] = "new" /\ pc'[t] = "awaitReq"
  \/ w[2] = "resp" /\ pc[t] = "fetching" /\ pc'[t] = "awaitResp"

\* C5: askManager called while there is no current manager channel, or while
\* the current channel is not open, fails at once with manager-not-connected
\* and registers no waiter, arms no timer and writes no frame.
C5_NotConnectedFailsAtOnce ==
  [][\A w \in Waiters :
       (Asking(w) /\ (manager = NoChannel \/ readyState[manager] # "OPEN"))
       => /\ promise'[w] = Rejected("manager-not-connected")
          /\ pendingDecisions' = pendingDecisions
          /\ timers' = timers
          /\ sent' = sent
    ]_vars

\* askManager failed at once on a manager channel that is current but closing
C5_Witness ==
  \E w \in Waiters :
    /\ promise[w] = Rejected("manager-not-connected")
    /\ manager # NoChannel
    /\ readyState[manager] = "CLOSING"
    /\ sentOn(w) = {}

\* the request review of t was answered with a reject decision
RequestRejected(t) ==
  /\ kind[t] = "http"
  /\ promise[<<t, "req">>].state = "fulfilled"
  /\ promise[<<t, "req">>].decision.action = "reject"

\* no target was contacted and no response review was asked for t
NothingForwarded(t) ==
  /\ t \notin targetContacted
  /\ forwarded[t] = EmptyObject
  /\ targetResp[t] = EmptyObject
  /\ promise[<<t, "resp">>].state = "none"
  /\ sentOn(<<t, "resp">>) = {}

\* C6 as claimed: an HTTP request whose request review was rejected is
\* answered 403 with the reason of the decision as body, the target is never
\* contacted and no response review is sent.
C6_RejectClaim ==
  \A t \in Txn :
    RequestRejected(t) =>
      /\ NothingForwarded(t)
      /\ pc[t] = "done" =>
           /\ Has(promise[<<t, "req">>].decision, "reason")
           /\ clientOut[t] =
                << [status |-> 403, headers |-> EmptyObject,
                    body |-> Text(promise[<<t, "req">>].decision.reason)] >>

\* C6 as amended: the body of the 403 is the reason of the decision when the
\* decision carries a non-empty one, and 'Rejected by manager' when it does
\* not; the target is never contacted and no response review is sent.
C6_RejectAnswered403 ==
  \A t \in Txn :
    RequestRejected(t) =>
      /\ NothingForwarded(t)
      /\ pc[t] \in {"awaitReq", "done"}
      /\ pc[t] = "done" =>
           LET d == promise[<<t, "req">>].decision IN
           clientOut[t] =
             << [status |-> 403, headers |-> EmptyObject,
                 body |-> IF Has(d, "reason") /\ d.reason # ""
                          THEN Text(d.reason)
                          ELSE Text("Rejected by manager")] >>

\* a request was rejected with a reason and its handler has answered
C6_Witness ==
  \E t \in Txn :
    /\ RequestRejected(t)
    /\ Has(promise[<<t, "req">>].decision, "reason")
    /\ pc[t] = "done"

\* C7: when the request review of an HTTP request or of a CONNECT failed by
\* its deadline or by the disconnect of the manager, the client is answered
\* 504 and the target is never contacted.
C7_ReviewFailureIs504 ==
  \A t \in Txn :
    promise[<<t, "req">>].error \in {"manager-timeout", "manager-disconnected"}
    => /\ t \notin targetContacted
       /\ pc[t] \in {"awaitReq", "done"}
       /\ pc[t] = "done" =>
            Len(clientOut[t]) = 1 /\ clientOut[t][1].status = 504

\* a request review failed by its deadline and the handler has answered
C7_Witness ==
  \E t \in Txn :
    /\ promise[<<t, "req">>].error = "manager-timeout"
    /\ kind[t] = "http"
    /\ pc[t] = "done"

\* C8: when the response review failed (deadline, disconnect or no manager
\* connected), the client receives the target's status, headers and body as
\* the target returned them.
C8_FallbackIsOriginal ==
  \A t \in Txn :
    (promise[<<t, "resp">>].state = "rejected" /\ pc[t] = "done")
    => clientOut[t] =
         << [status |-> targetResp[t].status, headers |-> targetResp[t].headers,
             body |-> Bytes(targetResp[t].body)] >>

\* the manager disconnected during the response review; the handler answered
C8_Witness ==
  \E t \in Txn :
    /\ promise[<<t, "resp">>].error = "manager-disconnected"
    /\ pc[t] = "done"

\* C9: the response review is asked only after the request review resolved
\* with a decision that is no reject and after the target responded; the two
\* waiters of one transaction are never pending together.
C9_ReviewsSequential ==
  \A t \in Txn :
    /\ (promise[<<t, "resp">>].state # "none" \/ sentOn(<<t, "resp">>) # {})
       => /\ promise[<<t, "req">>].state = "fulfilled"
          /\ promise[<<t, "req">>].decision.action # "reject"
          /\ targetResp[t] # EmptyObject
          /\ sentOn(<<t, "req">>) # {}
    /\ ~(promise[<<t, "req">>].state = "pending"
           /\ promise[<<t, "resp">>].state = "pending")
    /\ Cardinality({w \in Waiting : w[1] = t}) <= 1

\* a response review is pending
C9_Witness ==
  \E t \in Txn :
    /\ promise[<<t, "resp">>].state = "pending"
    /\ sentOn(<<t, "resp">>) # {}

\* ------------------------------------------------------------------------
\* Properties of the merge
\* ------------------------------------------------------------------------
\* C10: the forwarded request is the modified record merged over the
\* original: url, method and body are the modified value whenever the field
\* is present in modified (an empty body included) and the original value
\* otherwise; the headers are the original ones with the keys of
\* modified.headers overriding; without a modified record all four are the
\* originals.
C10_MergeClaim ==
  (mergeIn # EmptyObject /\ mergeOut # EmptyObject /\ mergeIn.of = "request")
  => LET o == mergeIn.orig
         d == mergeIn.decision
     IN IF ~Has(d, "modified")
        THEN mergeOut = [url |-> o.url, method |-> o.method,
                         headers |-> o.headers, body |-> o.body]
        ELSE LET m == d.modified IN
             /\ mergeOut.url = IF Has(m, "url") THEN m.url ELSE o.url
             /\ mergeOut.method = IF Has(m, "method") THEN m.method ELSE o.method
             /\ mergeOut.body = IF Has(m, "body") THEN fromBase64(m.body) ELSE o.body
             /\ DOMAIN mergeOut.headers =
                  (DOMAIN o.headers)
                    \cup (IF Has(m, "headers") THEN DOMAIN m.headers ELSE {})
             /\ \A k \in DOMAIN mergeOut.headers :
                  mergeOut.headers[k] =
                    IF Has(m, "headers") /\ k \in DOMAIN m.headers
                    THEN m.headers[k] ELSE o.headers[k]

\* ------------------------------------------------------------------------
\* Properties of the CONNECT handlers
\* ------------------------------------------------------------------------
\* the client of handler t of src/server.js was written the status
statusWritten(t, status) ==
  \E i \in 1..Len(clientOut[t]) : clientOut[t][i].status = status

\* the client socket of handler t of the relayed build was written the status
relayStatusWritten(t, status) ==
  \E i \in 1..Len(clientWrites[t]) : clientWrites[t][i] = [status |-> status]

\* handler t of the relayed build has its client socket in the registry
Registered(t) ==
  \E i \in DOMAIN connections : connections[i] = t

\* C11: in both builds a CONNECT is answered '200 Connection Established'
\* (and, in the relayed build, its client socket is registered) only after a
\* review-request of kind connect for it was sent to the manager and answered
\* with an accept decision.
C11_ConnectReviewedClaim ==
  /\ \A t \in Txn :
       (kind[t] = "connect" /\ statusWritten(t, 200))
       => /\ sentOn(<<t, "req">>) # {}
          /\ promise[<<t, "req">>].state = "fulfilled"
          /\ promise[<<t, "req">>].decision.action = "accept"
  /\ \A t \in Txn :
       (relayStatusWritten(t, 200) \/ Registered(t))
       => \E i \in 1..Len(relayed[t]) :
            /\ relayed[t][i].type = "review-request"
            /\ relayed[t][i].id = connId[t]

\* C12: in the relayed build, when the manager channel is lost every client
\* socket of the registry is closed and unregistered: the close handler of
\* the current manager WebSocket leaves the registry empty and its sockets
\* closed, and no socket is registered while there is no manager channel.
C12_ClientsClosedClaim ==
  /\ [](managerSocket = NoChannel => DOMAIN connections = {})
  /\ [][\A ws \in Channel :
          ( /\ wsState[ws] = "CLOSING" /\ wsState'[ws] = "CLOSED"
            /\ managerSocket = ws )
          => /\ DOMAIN connections' = {}
             /\ \A t \in Txn : Registered(t) => clientSocket'[t] = "closed"
       ]_vars

\* ------------------------------------------------------------------------
\* Properties of the upgrade gate
\* ------------------------------------------------------------------------
\* C13: an upgrade request on the manager path whose token is missing or
\* differs from the secret is answered 401 and its socket is destroyed, it
\* changes neither the current manager nor the registry, and a WebSocket
\* becomes the current manager only by an upgrade that presented the secret.
\* Stated of the relayed build; the gate of src/server.js is upgradeReply.
C13_UpgradeGateClaim ==
  /\ []((upgradeOut # EmptyObject /\ upgradeOut.pathname = "/ws"
           /\ upgradeOut.token # MANAGER_TOKEN)
        => upgradeOut.written = "401" /\ upgradeOut.destroyed)
  /\ [][/\ (upgradeOut' # upgradeOut /\ upgradeOut'.token # MANAGER_TOKEN)
             => UNCHANGED << managerSocket, wsState, connections >>
        /\ (managerSocket' # managerSocket /\ managerSocket' # NoChannel)
             => upgradeOut'.token = MANAGER_TOKEN
       ]_vars
  /\ \A token \in Tokens :
       token # MANAGER_TOKEN
       => upgradeReply(token).written = "401" /\ upgradeReply(token).destroyed

\* ------------------------------------------------------------------------
\* Properties of the answers to the client
\* ------------------------------------------------------------------------
\* C14: a client request (HTTP or CONNECT) that arrives while no manager
\* channel is connected is answered 502, in both builds.
C14_NotConnectedIs502Claim ==
  /\ \A t \in Txn :
       (promise[<<t, "req">>].error = "manager-not-connected" /\ pc[t] = "done")
       => Len(clientOut[t]) = 1 /\ clientOut[t][1].status = 502
  /\ \A t \in Txn :
       (clientSocket[t] = "closed" /\ ~relayStatusWritten(t, 200))
       => clientWrites[t] = << [status |-> 502] >>

\* C15: every review frame written to a manager channel carries an id no
\* other review frame carries: no two frames ever sent share an id.
C15_UniqueIdClaim ==
  \A f, g \in sent : f.frame.id = g.frame.id => f.frame = g.frame

\* C16: in the direct splice a target socket error before the 200 is
\* answered 502, and once '200 Connection Established' was written to a
\* client socket no further status line is written to it.
C16_NoStatusAfter200Claim ==
  \A t \in Txn :
    kind[t] = "connect"
    => /\ \A i \in 1..Len(clientOut[t]) :
            clientOut[t][i].status = 200 => i = Len(clientOut[t])
       /\ (pc[t] = "done" /\ t \in targetContacted /\ ~statusWritten(t, 200))
            => clientOut[t] = << [status |-> 502, headers |-> EmptyObject,
                                  body |-> Text("")] >>

\* ------------------------------------------------------------------------
\* Properties of the heartbeat
\* ------------------------------------------------------------------------
\* the heartbeat terminates the current manager in this step: the manager
\* stops being current while its WebSocket has not yet closed
Terminating ==
  /\ manager # NoChannel
  /\ manager' = NoChannel
  /\ readyState'[manager] # "CLOSED"

C18_EndUnregistersClaim ==
  /\ [](\A t \in Txn : clientSocket[t] = "ended" => ~Registered(t))
  /\ [][\A t \in Txn :
          clientSocket[t] = "ended"
          => clientWrites'[t] = clientWrites[t] /\ crashed' = crashed
       ]_vars
  /\ [][\A t \in Txn :
          clientSocket[t] = "closed"
          => clientSocket'[t] = "closed" /\ clientWrites'[t] = clientWrites[t]
       ]_vars

\* the frames of the connection of handler t sent to manager WebSockets, in
\* order
framesOf(t) == SelectSeq(relayed[t], LAMBDA f : f.id = connId[t])

\* the data frames of a connection carry chunks the client wrote, in the
\* order of their arrival, and an end frame comes last, after the close of
\* the client socket
FramesInOrder(t) ==
  LET F == framesOf(t) IN
  /\ \A i \in 1..Len(F) :
       F[i].type = "data"
       => \E k \in 1..chunksRead[t] : fromBase64(F[i].data) = chunkOf(k)
  /\ \A i, j \in 1..Len(F) :
       (i < j /\ F[i].type = "data" /\ F[j].type = "data")
       => fromBase64(F[i].data)[1] < fromBase64(F[j].data)[1]
  /\ \A i \in 1..Len(F) :
       F[i].type = "end" => i = Len(F) /\ clientSocket[t] = "closed"

\* the client socket of t is closing in this step
ClientClosing(t) ==
  clientSocket[t] \in {"open", "ended"} /\ clientSocket'[t] = "closed"

\* C19 as claimed: per connection id the data frames sent to the manager are
\* in the order in which the chunks arrived; when the client socket closes
\* the id is unregistered and exactly one end frame for the id is sent, after
\* all its data frames, and no data frame follows it.
C19_EndFrameClaim ==
  \A t \in Txn :
    connId[t] # 0
    => /\ FramesInOrder(t)
       /\ (clientSocket[t] = "closed" /\ relayStatusWritten(t, 200))
            => /\ ~Registered(t)
               /\ Len(SelectSeq(framesOf(t), LAMBDA f : f.type = "end")) = 1

\* C19 as amended: the data frames of a connection id are in the order in
\* which the chunks arrived; the close of the client socket unregisters the
\* id and sends one end frame if the manager WebSocket is open at that
\* moment and none if it is not; an end frame is the last frame of its id.
C19_FramesInOrder ==
  /\ [](\A t \in Txn :
          connId[t] # 0
          => /\ FramesInOrder(t)
             /\ clientSocket[t] = "closed" => ~Registered(t))
  /\ [][\A t \in Txn :
          ClientClosing(t)
          => relayed' =
               IF managerSocket # NoChannel /\ wsState[managerSocket] = "OPEN"
               THEN [relayed EXCEPT
                       ![t] = Append(@, [id |-> connId[t], type |-> "end"])]
               ELSE relayed
       ]_vars

\* a client wrote two chunks and closed: two data frames, then the end frame
C19_Witness ==
  \E t \in Txn :
    LET F == framesOf(t) IN
    /\ clientSocket[t] = "closed"
    /\ Len(F) = 3
    /\ F[1].type = "data" /\ F[2].type = "data" /\ F[3].type = "end"
    /\ fromBase64(F[1].data) = chunkOf(1)
    /\ fromBase64(F[2].data) = chunkOf(2)

\* ------------------------------------------------------------------------
\* Properties of the handover
\* ------------------------------------------------------------------------
\* C20: a pending waiter is completed only by a decision frame received on
\* the manager channel its review frame was written to: no frame arriving on
\* another channel (a superseded one whose close has not completed) resolves
\* it.
C20_OwnChannelClaim ==
  \A ws \in Channel, w \in Waiters :
    (promise[w].state = "pending" /\ ws \notin sentOn(w))
    => ~ENABLED (\E msg \in ManagerMessages :
                   message(ws, msg) /\ promise'[w].state = "fulfilled")

====
